---- MODULE Spec2Model ----
(***************************************************************************)
(* Bond valuation and risk-metrics engine of Gestion-Obligataire           *)
(* (src/cores/bond_calculations.py), as a state machine whose actions are  *)
(* the calls a page makes into the engine.                                 *)
(*                                                                         *)
(* Numbers.  The engine computes on Python floats.  Here a number is an    *)
(* exact rational, kept in lowest terms over arbitrary-precision naturals  *)
(* (sequences of base-2^15 limbs, least significant first), so that the    *)
(* formulas are evaluated as the code writes them without any overflow of  *)
(* TLC's machine integers.  The variable arith selects how the            *)
(* result of a float operation is taken: "real" keeps it exact (the        *)
(* arithmetic the formulas are stated in), "binary64" rounds it to the     *)
(* nearest float, ties to even, as the machine does.                       *)
(***************************************************************************)
EXTENDS Integers, Sequences, FiniteSets, TLC

(***************************************************************************)
(* Arbitrary-precision naturals.                                           *)
(***************************************************************************)
\* a limb holds LimbBits bits: the product of two limbs is a machine integer
LimbBits == 3 * 5
Base == 2^LimbBits

Limb(a, i) == IF i <= Len(a) THEN a[i] ELSE 0

RECURSIVE NatStrip(_)
NatStrip(a) ==
    IF Len(a) = 0 THEN a
    ELSE IF a[Len(a)] = 0 THEN NatStrip(SubSeq(a, 1, Len(a) - 1)) ELSE a

RECURSIVE NatFromInt(_)
NatFromInt(k) ==
    IF k = 0 THEN << >> ELSE <<k % Base>> \o NatFromInt(k \div Base)

RECURSIVE NatToInt(_)
NatToInt(a) ==
    IF Len(a) = 0 THEN 0 ELSE a[1] + Base * NatToInt(Tail(a))

RECURSIVE NatAddFrom(_, _, _, _)
NatAddFrom(a, b, i, carry) ==
    IF i > Len(a) /\ i > Len(b)
    THEN (IF carry = 0 THEN << >> ELSE <<carry>>)
    ELSE LET s == Limb(a, i) + Limb(b, i) + carry
         IN  <<s % Base>> \o NatAddFrom(a, b, i + 1, s \div Base)

NatAdd(a, b) == NatAddFrom(a, b, 1, 0)

RECURSIVE NatSubFrom(_, _, _, _)
NatSubFrom(a, b, i, borrow) ==
    IF i > Len(a) THEN << >>
    ELSE LET s == Limb(a, i) - Limb(b, i) - borrow
         IN  IF s < 0
             THEN <<s + Base>> \o NatSubFrom(a, b, i + 1, 1)
             ELSE <<s>> \o NatSubFrom(a, b, i + 1, 0)

\* a - b for a >= b
NatSub(a, b) == NatStrip(NatSubFrom(a, b, 1, 0))

RECURSIVE NatCmpFrom(_, _, _)
NatCmpFrom(a, b, i) ==
    IF i = 0 THEN 0
    ELSE IF a[i] < b[i] THEN -1
    ELSE IF a[i] > b[i] THEN 1
    ELSE NatCmpFrom(a, b, i - 1)

\* -1, 0 or 1 as a < b, a = b, a > b
NatCmp(a, b) ==
    IF Len(a) < Len(b) THEN -1
    ELSE IF Len(a) > Len(b) THEN 1
    ELSE NatCmpFrom(a, b, Len(a))

RECURSIVE NatMulSmallFrom(_, _, _, _)
NatMulSmallFrom(a, k, i, carry) ==
    IF i > Len(a) THEN NatFromInt(carry)
    ELSE LET s == a[i] * k + carry
         IN  <<s % Base>> \o NatMulSmallFrom(a, k, i + 1, s \div Base)

\* a * k for 0 <= k < Base
NatMulSmall(a, k) == IF k = 0 THEN << >> ELSE NatMulSmallFrom(a, k, 1, 0)

\* a * Base^n
NatShift(a, n) == IF Len(a) = 0 THEN a ELSE [i \in 1..n |-> 0] \o a

RECURSIVE NatMulFrom(_, _, _)
NatMulFrom(a, b, i) ==
    IF i > Len(b) THEN << >>
    ELSE NatAdd(NatShift(NatMulSmall(a, b[i]), i - 1), NatMulFrom(a, b, i + 1))

NatMul(a, b) ==
    IF Len(a) = 0 \/ Len(b) = 0 THEN << >>
    ELSE IF Len(a) = 1 /\ Len(b) = 1 THEN NatFromInt(a[1] * b[1])
    ELSE IF Len(b) = 1 THEN NatMulSmall(a, b[1])
    ELSE IF Len(a) = 1 THEN NatMulSmall(b, a[1])
    ELSE NatMulFrom(a, b, 1)

\* a of at most two limbs, as a machine integer
Small(a) == Len(a) <= 2

\* the largest q in lo..hi with q * b <= r (lo is known to satisfy it)
RECURSIVE NatDigit(_, _, _, _)
NatDigit(r, b, lo, hi) ==
    IF lo >= hi THEN lo
    ELSE LET mid == (lo + hi + 1) \div 2
         IN  IF NatCmp(NatMulSmall(b, mid), r) <= 0
             THEN NatDigit(r, b, mid, hi)
             ELSE NatDigit(r, b, lo, mid - 1)

\* r div b for r < Base * b, the leading limb of b being at least Base / 2:
\* the estimate made from the leading limbs is the quotient digit or exceeds
\* it by at most two
NatQuot(r, b) ==
    IF Len(r) < Len(b) THEN 0
    ELSE LET bt == b[Len(b)]
             rt == IF Len(r) = Len(b) THEN r[Len(r)]
                   ELSE r[Len(r)] * Base + r[Len(r) - 1]
             e  == rt \div bt
             hi == IF e > Base - 1 THEN Base - 1 ELSE e
         IN  NatDigit(r, b, IF hi > 2 THEN hi - 2 ELSE 0, hi)

\* a * 2^k and a div 2^k, for 0 <= k < LimbBits
NatShlSmall(a, k) == IF k = 0 THEN a ELSE NatMulSmall(a, 2^k)
NatShrSmall(a, k) ==
    IF k = 0 THEN a
    ELSE NatStrip([i \in 1..Len(a) |->
             (a[i] \div 2^k) + (Limb(a, i + 1) % 2^k) * 2^(LimbBits - k)])

\* long division of a's limbs i..1 by b, both scaled by 2^k: r is the running
\* remainder, qs the digits of the quotient found so far; <<a div b, a mod b>>
\* (the remainder of a step is computed before the next step is entered)
RECURSIVE NatDivFrom(_, _, _, _, _, _)
\* the step that found the digit q for the dividend cur
NatDivPut(a, b, i, cur, q, qs, k) ==
    NatDivFrom(a, b, i - 1, NatSub(cur, NatMulSmall(b, q)), <<q>> \o qs, k)
NatDivAt(a, b, i, cur, qs, k) == NatDivPut(a, b, i, cur, NatQuot(cur, b), qs, k)
NatDivFrom(a, b, i, r, qs, k) ==
    IF Len(r) >= 0 /\ i = 0 THEN << NatStrip(qs), NatShrSmall(r, k) >>
    ELSE NatDivAt(a, b, i, NatStrip(<<a[i]>> \o r), qs, k)

\* the number of bits of a limb k > 0
LimbLen(k) == CHOOSE n \in 1..LimbBits : 2^(n - 1) <= k /\ k < 2^n

\* a and b scaled so that the leading limb of the divisor is at least Base / 2
NatDivScaled(sa, sb, k) ==
    NatDivFrom(sa, sb, Len(sa) - Len(sb) + 1,
               SubSeq(sa, Len(sa) - Len(sb) + 2, Len(sa)), << >>, k)

SmallDivMod(x, y) == << NatFromInt(x \div y), NatFromInt(x % y) >>

\* <<a div b, a mod b>> for b > 0
NatDivMod(a, b) ==
    IF Small(a) /\ Small(b) THEN SmallDivMod(NatToInt(a), NatToInt(b))
    ELSE IF NatCmp(a, b) < 0 THEN << << >>, a >>
    ELSE NatDivScaled(NatShlSmall(a, LimbBits - LimbLen(b[Len(b)])),
                      NatShlSmall(b, LimbBits - LimbLen(b[Len(b)])),
                      LimbBits - LimbLen(b[Len(b)]))

\* one step of Euclid's algorithm on the pair p
EuclidStep(p) ==
    IF Len(p[2]) = 0 THEN p ELSE <<p[2], NatDivMod(p[1], p[2])[2]>>

\* k steps of it, split in halves so that the evaluation stays shallow
RECURSIVE EuclidRun(_, _)
EuclidRun(p, k) ==
    IF Len(p[2]) = 0 THEN p
    ELSE IF k <= 1 THEN EuclidStep(p)
    ELSE EuclidRun(EuclidRun(p, k \div 2), k - k \div 2)

\* gcd(a, b); the algorithm ends within 3/2 steps per bit of b
NatGcd(a, b) == EuclidRun(<<a, b>>, 23 * Len(b) + 2)[1]

RECURSIVE NatPow(_, _)
NatPow(a, k) == IF k = 0 THEN <<1>> ELSE NatMul(a, NatPow(a, k - 1))

\* a * 2^k
NatShl(a, k) == NatShift(NatMulSmall(a, 2^(k % LimbBits)), k \div LimbBits)

\* 2^k
Pow2(k) == NatShl(<<1>>, k)

\* the number of bits of a: 2^(BitLen(a) - 1) <= a < 2^BitLen(a) for a > 0
BitLen(a) ==
    IF Len(a) = 0 THEN 0
    ELSE LimbBits * (Len(a) - 1) + LimbLen(a[Len(a)])

\* the number of zero bits a > 0 ends with
TrailingZeros(a) ==
    LET z == CHOOSE i \in 1..Len(a) : a[i] # 0 /\ \A j \in 1..(i - 1) : a[j] = 0
    IN  LimbBits * (z - 1)
        + (CHOOSE n \in 0..(LimbBits - 1) : a[z] % 2^n = 0 /\ a[z] % 2^(n + 1) # 0)

\* a div 2^k
NatShr(a, k) == NatShrSmall(SubSeq(a, k \div LimbBits + 1, Len(a)), k % LimbBits)

(***************************************************************************)
(* Exact rationals <<sign, numerator, denominator>>, in lowest terms, the  *)
(* denominator positive, zero being <<0, <<>>, <<1>>>>.                    *)
(***************************************************************************)
Sgn(x) == x[1]
NatOne == <<1>>
Zero == <<0, << >>, NatOne>>

\* <<s, n / g, d / g>> for a common divisor g of n and d
Lowest(s, n, d, g) ==
    IF g = NatOne THEN <<s, n, d>>
    ELSE <<s>> \o [i \in 1..2 |-> NatDivMod(<<n, d>>[i], g)[1]]

Mk(s, n, d) ==
    IF Len(n) = 0 \/ s = 0 THEN Zero ELSE Lowest(s, n, d, NatGcd(n, d))

\* the rational a / b of machine integers, b > 0
Q(a, b) ==
    IF a = 0 THEN Zero
    ELSE Mk(IF a < 0 THEN -1 ELSE 1, NatFromInt(IF a < 0 THEN -a ELSE a), NatFromInt(b))

One == <<1, NatOne, NatOne>>

Neg(x) == <<-x[1], x[2], x[3]>>
Abs(x) == <<x[1] * x[1], x[2], x[3]>>

\* the operations, before the result is brought to lowest terms
\* sx * a / d + sy * b / d, for signs sx, sy other than 0
AddSigned(sx, a, sy, b, d) ==
    IF sx = sy THEN <<sx, NatAdd(a, b), d>>
    ELSE IF NatCmp(a, b) = 0 THEN Zero
    ELSE IF NatCmp(a, b) > 0 THEN <<sx, NatSub(a, b), d>>
    ELSE <<sy, NatSub(b, a), d>>

AddRaw(x, y) ==
    IF x[1] = 0 THEN y
    ELSE IF y[1] = 0 THEN x
    ELSE AddSigned(x[1], NatMul(x[2], y[3]), y[1], NatMul(y[2], x[3]),
                   NatMul(x[3], y[3]))

MulRaw(x, y) ==
    IF x[1] = 0 \/ y[1] = 0 THEN Zero
    ELSE <<x[1] * y[1], NatMul(x[2], y[2]), NatMul(x[3], y[3])>>

\* x ** k for a machine integer k (x ** 0 = 1, also for x = 0; x # 0 if k < 0)
PowRaw(x, k) ==
    IF k = 0 THEN One
    ELSE IF x[1] = 0 THEN Zero
    ELSE << IF k % 2 = 0 THEN 1 ELSE x[1],
            NatPow(IF k > 0 THEN x[2] ELSE x[3], IF k > 0 THEN k ELSE -k),
            NatPow(IF k > 0 THEN x[3] ELSE x[2], IF k > 0 THEN k ELSE -k) >>

Norm(r) == Mk(r[1], r[2], r[3])

Add(x, y) == Norm(AddRaw(x, y))
Sub(x, y) == Add(x, Neg(y))
Mul(x, y) == Norm(MulRaw(x, y))
\* x / y for y # 0
Div(x, y) == Mul(x, <<y[1], y[3], y[2]>>)

\* -1, 0 or 1 as x < y, x = y, x > y
Cmp(x, y) ==
    IF x[1] # y[1] THEN (IF x[1] < y[1] THEN -1 ELSE 1)
    ELSE IF x[1] = 0 THEN 0
    ELSE x[1] * NatCmp(NatMul(x[2], y[3]), NatMul(y[2], x[3]))
Lt(x, y) == Cmp(x, y) < 0
Le(x, y) == Cmp(x, y) <= 0

\* int(x): truncation toward zero, as a machine integer
Trunc(x) == x[1] * NatToInt(NatDivMod(x[2], x[3])[1])

(***************************************************************************)
(* The state: the engine keeps none of its own (every function is a pure   *)
(* function of its arguments), so the state is the call in progress or     *)
(* last completed, as its caller sees it.                                  *)
(***************************************************************************)
VARIABLES
    arith,  \* the arithmetic floats are interpreted in: "real" or "binary64"
    op,     \* the engine function called last ("none" before any call)
    args,   \* its arguments
    ret,    \* what it returned (a number, a schedule), or Raised
    \* calculate_yield_to_maturity, while it runs and after:
    exit,   \* "running", or the statement that ended the call
    ytm,    \* its local ytm
    it,     \* the iterations of its loop completed with an update
    evals,  \* the calls of calculate_bond_price it has made
    \* several callers at once:
    calls,  \* the call of each caller in progress: the function, its
            \* arguments and its local variables
    now,    \* the wall clock, a day number
    \* the session's Portfolio:
    positions   \* Portfolio.positions, a list of BondPosition

vars == <<arith, op, args, ret, exit, ytm, it, evals, calls, now, positions>>

(***************************************************************************)
(* Python float arithmetic.  An operation that raises (ZeroDivisionError)  *)
(* yields Raised, and every operation on Raised yields Raised: the         *)
(* exception leaves the function.                                          *)
(***************************************************************************)
Raised == <<2, << >>, << >>>>
IsNum(x) == x[1] # 2

\* a binary64 significand: 52 stored bits and the implicit leading one
MantissaBits == 52 + 1

\* m * 2^e in lowest terms, m > 0
Dyadic(s, m, e) ==
    IF e >= 0 THEN <<s, NatShl(m, e), NatOne>>
    ELSE IF TrailingZeros(m) < -e
    THEN <<s, NatShr(m, TrailingZeros(m)), Pow2(-e - TrailingZeros(m))>>
    ELSE <<s, NatShr(m, -e), NatOne>>

\* <<floor(n * 2^k), whether bits were lost>>
Shifted(n, k) ==
    IF k >= 0 THEN <<NatShl(n, k), FALSE>>
    ELSE <<NatShr(n, -k), TrailingZeros(n) < -k>>

\* a quotient with its remainder, as <<quotient, whether there is a remainder>>
Inexact(qr) == <<qr[1], Len(qr[2]) # 0>>

\* <<floor(n * 2^k / d), whether the division left a remainder>>; a shift
\* when d is a power of two
ScaledQuotient(n, d, k) ==
    IF TrailingZeros(d) = BitLen(d) - 1 THEN Shifted(n, k - (BitLen(d) - 1))
    ELSE Inexact(NatDivMod(IF k >= 0 THEN NatShl(n, k) ELSE n,
                           IF k >= 0 THEN d ELSE NatShl(d, -k)))

\* q, of MantissaBits + drop bits (drop is 2 or 3) and followed by further
\* non-zero bits if sticky, rounded to MantissaBits bits, ties to even
Nearest(q, sticky, drop) ==
    LET low  == q[1] % 2^drop
        half == 2^(drop - 1)
        odd  == (q[1] \div 2^drop) % 2 = 1
    IN  IF low > half \/ (low = half /\ (sticky \/ odd))
        THEN NatAdd(NatShr(q, drop), NatOne)
        ELSE NatShr(q, drop)

\* the float nearest to s * qs[1] / 2^sh, qs[2] telling of bits beyond qs[1]
RoundQuotient(s, qs, sh) ==
    Dyadic(s, Nearest(qs[1], qs[2], BitLen(qs[1]) - MantissaBits),
           BitLen(qs[1]) - MantissaBits - sh)

\* the float nearest to r[2] / r[3], ties to the even significand: the
\* quotient is taken to two or three bits beyond the significand, and the
\* bits beyond it, with the remainder of the division, decide the rounding
\* (the exponent range is not bounded: the arguments followed here stay far
\* inside it)
RoundScaled(r, sh) == RoundQuotient(r[1], ScaledQuotient(r[2], r[3], sh), sh)

Round(r) ==
    IF r[1] = 0 THEN Zero
    ELSE RoundScaled(r, (MantissaBits + 2) - (BitLen(r[2]) - BitLen(r[3])))

\* the result of a float operation whose exact result is r
Fl(r) == IF arith = "real" THEN Norm(r) ELSE Round(r)

(***************************************************************************)
(* The interpreter: Python(f, a) is the value of the call of f with the     *)
(* arguments a, f being a method of float, a function of the engine, or    *)
(* the piece of a page that reads its widgets.  It is defined below, after *)
(* the functions it runs.                                                  *)
(* Every call goes through this one operator, the float operations         *)
(* included: TLC's coverage statistics unfold a definition at each of its  *)
(* uses, except for a recursive operator inside its own definition, and    *)
(* unfolding the arithmetic at every operation of every formula is beyond  *)
(* them.                                                                   *)
(***************************************************************************)
RECURSIVE Python(_, _)

fadd(x, y) ==
    IF IsNum(x) /\ IsNum(y) THEN Python("float.__add__", <<x, y>>) ELSE Raised
fsub(x, y) ==
    IF IsNum(x) /\ IsNum(y) THEN Python("float.__add__", <<x, Neg(y)>>) ELSE Raised
fmul(x, y) ==
    IF IsNum(x) /\ IsNum(y) THEN Python("float.__mul__", <<x, y>>) ELSE Raised
\* x / y: ZeroDivisionError when y == 0
fdiv(x, y) ==
    IF IsNum(x) /\ IsNum(y) /\ Sgn(y) # 0
    THEN Python("float.__mul__", <<x, <<y[1], y[3], y[2]>> >>) ELSE Raised
\* x ** k, k an int: ZeroDivisionError for 0.0 to a negative power
fpow(x, k) ==
    IF ~IsNum(x) \/ (k < 0 /\ Sgn(x) = 0) THEN Raised
    ELSE Python("float.__pow__", <<x, k>>)
fabs(x) == IF IsNum(x) THEN Abs(x) ELSE Raised
\* float(k) of an int, and the float written a / b
I(k) ==
    IF k = 0 THEN Zero
    ELSE <<IF k < 0 THEN -1 ELSE 1, NatFromInt(IF k < 0 THEN -k ELSE k), NatOne>>
Num(a, b) == fdiv(I(a), I(b))
flt(x, y) == Lt(x, y)
\* int(x) of a float
int(x) == Python("float.__int__", <<x>>)

(***************************************************************************)
(* calculate_bond_price                                                    *)
(***************************************************************************)
n_periods(years_to_maturity, frequency) ==
    int(fmul(years_to_maturity, I(frequency)))

\* calculate_bond_price with the face value discounted at the annual yield
\* instead of the yield of a period
price_face_at_annual_yield(face_value, coupon_rate, years_to_maturity, yield_rate, frequency) ==
    IF Sgn(yield_rate) = 0
    THEN LET coupon_payment == fdiv(fmul(face_value, coupon_rate), I(frequency))
         IN  fadd(fmul(fmul(coupon_payment, years_to_maturity), I(frequency)),
                  face_value)
    ELSE LET n == n_periods(years_to_maturity, frequency)
             coupon_payment == fdiv(fmul(face_value, coupon_rate), I(frequency))
             period_yield == fdiv(yield_rate, I(frequency))
             pv_coupons ==
                 fdiv(fmul(coupon_payment,
                           fsub(One, fpow(fadd(One, period_yield), -n))),
                      period_yield)
             pv_face_value == fdiv(face_value, fpow(fadd(One, yield_rate), n))
         IN  fadd(pv_coupons, pv_face_value)

\* calculate_bond_price with the period count floored at zero yield too
price_floored_at_zero_yield(face_value, coupon_rate, years_to_maturity, yield_rate, frequency) ==
    LET n == n_periods(years_to_maturity, frequency)
        coupon_payment == fdiv(fmul(face_value, coupon_rate), I(frequency))
        period_yield == fdiv(yield_rate, I(frequency))
        pv_coupons ==
            IF IsNum(period_yield) /\ Sgn(period_yield) = 0
            THEN fmul(coupon_payment, I(n))
            ELSE fdiv(fmul(coupon_payment,
                           fsub(One, fpow(fadd(One, period_yield), -n))),
                      period_yield)
        pv_face_value == fdiv(face_value, fpow(fadd(One, period_yield), n))
    IN  fadd(pv_coupons, pv_face_value)

\* calculate_bond_price with a flat fee of one unit added to the price
bond_price_with_fee(face_value, coupon_rate, years_to_maturity, yield_rate, frequency) ==
    fadd(fdiv(fmul(face_value, fadd(One, fmul(coupon_rate, years_to_maturity))),
              fadd(One, fmul(yield_rate, years_to_maturity))),
         One)

calculate_bond_price(face_value, coupon_rate, years_to_maturity, yield_rate, frequency) ==
    IF Sgn(yield_rate) = 0
    THEN LET coupon_payment == fdiv(fmul(face_value, coupon_rate), I(frequency))
         IN  fadd(fmul(fmul(coupon_payment, years_to_maturity), I(frequency)),
                  face_value)
    ELSE LET n == n_periods(years_to_maturity, frequency)
             coupon_payment == fdiv(fmul(face_value, coupon_rate), I(frequency))
             period_yield == fdiv(yield_rate, I(frequency))
             pv_coupons ==
                 IF IsNum(period_yield) /\ Sgn(period_yield) = 0
                 THEN fmul(coupon_payment, I(n))
                 ELSE fdiv(fmul(coupon_payment,
                                fsub(One, fpow(fadd(One, period_yield), -n))),
                           period_yield)
             pv_face_value == fdiv(face_value, fpow(fadd(One, period_yield), n))
         IN  fadd(pv_coupons, pv_face_value)

(***************************************************************************)
(* calculate_macaulay_duration, calculate_modified_duration,               *)
(* calculate_convexity                                                     *)
(***************************************************************************)
\* the body of the period loop shared by duration and convexity: the
\* discounted cash flow of period t
\* pv_cash_flow without the face value at maturity
pv_coupon_only(coupon_payment, face_value, period_yield, n, t) ==
    fdiv(coupon_payment, fpow(fadd(One, period_yield), t))

\* pv_cash_flow with the face value taken from the last coupon
pv_face_value_paid(coupon_payment, face_value, period_yield, n, t) ==
    LET cash_flow == IF t = n THEN fsub(coupon_payment, face_value)
                     ELSE coupon_payment
    IN  fdiv(cash_flow, fpow(fadd(One, period_yield), t))

pv_cash_flow(coupon_payment, face_value, period_yield, n, t) ==
    LET cash_flow == IF t = n THEN fadd(coupon_payment, face_value)
                     ELSE coupon_payment
    IN  fdiv(cash_flow, fpow(fadd(One, period_yield), t))

\* weighted_cash_flows with the time of a cash flow in periods, not years
RECURSIVE weighted_by_periods(_, _, _, _, _, _, _)
weighted_by_periods(acc, coupon_payment, face_value, period_yield, frequency, n, t) ==
    IF t > n THEN acc
    ELSE LET pv == pv_cash_flow(coupon_payment, face_value, period_yield, n, t)
         IN  weighted_by_periods(fadd(acc, fmul(I(t), pv)),
                                 coupon_payment, face_value, period_yield,
                                 frequency, n, t + 1)

\* weighted_cash_flows after the iterations t..n of the loop, entered with acc
RECURSIVE weighted_cash_flows(_, _, _, _, _, _, _)
weighted_cash_flows(acc, coupon_payment, face_value, period_yield, frequency, n, t) ==
    IF t > n THEN acc
    ELSE LET time_in_years == fdiv(I(t), I(frequency))
             pv == pv_cash_flow(coupon_payment, face_value, period_yield, n, t)
         IN  weighted_cash_flows(fadd(acc, fmul(time_in_years, pv)),
                                 coupon_payment, face_value, period_yield,
                                 frequency, n, t + 1)

\* calculate_macaulay_duration returning 0 for a bond without a price
macaulay_zero_at_zero_price(face_value, coupon_rate, years_to_maturity, yield_rate, frequency) ==
    LET n == n_periods(years_to_maturity, frequency)
        coupon_payment == fdiv(fmul(face_value, coupon_rate), I(frequency))
        period_yield == fdiv(yield_rate, I(frequency))
        price == calculate_bond_price(face_value, coupon_rate, years_to_maturity,
                                      yield_rate, frequency)
    IN  IF IsNum(price) /\ Sgn(price) = 0 THEN Zero
        ELSE fdiv(weighted_cash_flows(Zero, coupon_payment, face_value, period_yield,
                                      frequency, n, 1),
                  price)

calculate_macaulay_duration(face_value, coupon_rate, years_to_maturity, yield_rate, frequency) ==
    LET n == n_periods(years_to_maturity, frequency)
        coupon_payment == fdiv(fmul(face_value, coupon_rate), I(frequency))
        period_yield == fdiv(yield_rate, I(frequency))
        price == calculate_bond_price(face_value, coupon_rate, years_to_maturity,
                                      yield_rate, frequency)
    IN  fdiv(weighted_cash_flows(Zero, coupon_payment, face_value, period_yield,
                                 frequency, n, 1),
             price)

\* calculate_modified_duration dividing by 1 + yield_rate, the annual yield
modified_by_annual_yield(face_value, coupon_rate, years_to_maturity, yield_rate, frequency) ==
    LET mac_duration == calculate_macaulay_duration(face_value, coupon_rate,
                            years_to_maturity, yield_rate, frequency)
    IN  fdiv(mac_duration, fadd(One, yield_rate))

calculate_modified_duration(face_value, coupon_rate, years_to_maturity, yield_rate, frequency) ==
    LET mac_duration == calculate_macaulay_duration(face_value, coupon_rate,
                            years_to_maturity, yield_rate, frequency)
    IN  fdiv(mac_duration, fadd(One, fdiv(yield_rate, I(frequency))))

\* convexity_sum after the iterations t..n of the loop, entered with acc
RECURSIVE convexity_sum(_, _, _, _, _, _)
convexity_sum(acc, coupon_payment, face_value, period_yield, n, t) ==
    IF t > n THEN acc
    ELSE LET pv == pv_cash_flow(coupon_payment, face_value, period_yield, n, t)
         IN  convexity_sum(fadd(acc, fmul(I(t * (t + 1)), pv)),
                           coupon_payment, face_value, period_yield, n, t + 1)

\* calculate_convexity in periods squared: not divided by frequency ** 2
convexity_in_periods(face_value, coupon_rate, years_to_maturity, yield_rate, frequency) ==
    LET n == n_periods(years_to_maturity, frequency)
        coupon_payment == fdiv(fmul(face_value, coupon_rate), I(frequency))
        period_yield == fdiv(yield_rate, I(frequency))
        price == calculate_bond_price(face_value, coupon_rate, years_to_maturity,
                                      yield_rate, frequency)
    IN  fdiv(convexity_sum(Zero, coupon_payment, face_value, period_yield, n, 1),
             fmul(price, fpow(fadd(One, period_yield), 2)))

calculate_convexity(face_value, coupon_rate, years_to_maturity, yield_rate, frequency) ==
    LET n == n_periods(years_to_maturity, frequency)
        coupon_payment == fdiv(fmul(face_value, coupon_rate), I(frequency))
        period_yield == fdiv(yield_rate, I(frequency))
        price == calculate_bond_price(face_value, coupon_rate, years_to_maturity,
                                      yield_rate, frequency)
    IN  fdiv(convexity_sum(Zero, coupon_payment, face_value, period_yield, n, 1),
             fmul(fmul(price, fpow(fadd(One, period_yield), 2)),
                  I(frequency * frequency)))

(***************************************************************************)
(* generate_cash_flow_schedule: the list of (date, amount), a date being   *)
(* a day number.                                                           *)
(***************************************************************************)
\* schedule_from with the face value repaid with every coupon
schedule_repaying_each_period(coupon_payment, face_value, frequency, start_date, n, i) ==
    [k \in 1..(n - i + 1) |->
        << start_date + int(fdiv(I((i + k - 1) * 365), I(frequency))),
           fadd(coupon_payment, face_value) >>]

\* schedule_from with every payment on an anniversary of start_date: the
\* whole years elapsed at period i
schedule_on_anniversaries(coupon_payment, face_value, frequency, start_date, n, i) ==
    [k \in 1..(n - i + 1) |->
        << start_date + 365 * int(fdiv(I(i + k - 1), I(frequency))),
           IF i + k - 1 = n THEN fadd(coupon_payment, face_value)
           ELSE coupon_payment >>]

\* the entries the iterations i..n of the loop append to schedule, each
\* (payment_date, amount)
schedule_from(coupon_payment, face_value, frequency, start_date, n, i) ==
    [k \in 1..(n - i + 1) |->
        << start_date + int(fdiv(I((i + k - 1) * 365), I(frequency))),
           IF i + k - 1 = n THEN fadd(coupon_payment, face_value)
           ELSE coupon_payment >>]

\* generate_cash_flow_schedule with at least one payment whatever the maturity
schedule_never_empty(face_value, coupon_rate, years_to_maturity, frequency, start_date) ==
    LET n == n_periods(years_to_maturity, frequency)
        coupon_payment == fdiv(fmul(face_value, coupon_rate), I(frequency))
    IN  schedule_from(coupon_payment, face_value, frequency, start_date,
                      IF n < 1 THEN 1 ELSE n, 1)

generate_cash_flow_schedule(face_value, coupon_rate, years_to_maturity, frequency, start_date) ==
    LET n == n_periods(years_to_maturity, frequency)
        coupon_payment == fdiv(fmul(face_value, coupon_rate), I(frequency))
    IN  schedule_from(coupon_payment, face_value, frequency, start_date, n, 1)

(***************************************************************************)
(* calculate_accrued_interest (the dates are day numbers) and              *)
(* calculate_current_yield                                                 *)
(***************************************************************************)
\* calculate_accrued_interest counting no day before the last coupon date
accrued_since_coupon_date(face_value, coupon_rate, last_coupon_date, settlement_date, frequency) ==
    LET days_since_last_coupon ==
            IF settlement_date < last_coupon_date THEN 0
            ELSE settlement_date - last_coupon_date
        days_in_period == fdiv(I(365), I(frequency))
        coupon_payment == fdiv(fmul(face_value, coupon_rate), I(frequency))
    IN  fmul(coupon_payment, fdiv(I(days_since_last_coupon), days_in_period))

\* calculate_accrued_interest capped at the coupon of the period
accrued_interest_capped(face_value, coupon_rate, last_coupon_date, settlement_date, frequency) ==
    LET days_since_last_coupon == settlement_date - last_coupon_date
        days_in_period == fdiv(I(365), I(frequency))
        coupon_payment == fdiv(fmul(face_value, coupon_rate), I(frequency))
        accrued == fmul(coupon_payment, fdiv(I(days_since_last_coupon), days_in_period))
    IN  IF Lt(coupon_payment, accrued) THEN coupon_payment ELSE accrued

calculate_accrued_interest(face_value, coupon_rate, last_coupon_date, settlement_date, frequency) ==
    LET days_since_last_coupon == settlement_date - last_coupon_date
        days_in_period == fdiv(I(365), I(frequency))
        coupon_payment == fdiv(fmul(face_value, coupon_rate), I(frequency))
        accrued == fmul(coupon_payment, fdiv(I(days_since_last_coupon), days_in_period))
    IN  accrued

\* calculate_current_yield with the coupon taken on the face value
current_yield_on_face_value(price, face_value, coupon_rate) ==
    LET annual_coupon == fmul(face_value, coupon_rate)
    IN  fdiv(annual_coupon, face_value)

calculate_current_yield(price, face_value, coupon_rate) ==
    LET annual_coupon == fmul(face_value, coupon_rate)
    IN  fdiv(annual_coupon, price)

(***************************************************************************)
(* calculate_yield_to_maturity: one iteration of its loop, from the local  *)
(* ytm, with `done` iterations behind it.  The result is what the          *)
(* iteration leaves: the statement reached, ytm, and the number of price   *)
(* evaluations made.                                                       *)
(***************************************************************************)
delta == Num(1, 10000)

newton_update(cur, calculated_price, price, derivative) ==
    fsub(cur, fdiv(fsub(calculated_price, price), derivative))

\* the convergence check without the absolute value: any overshoot below
\* the price passes
converged_from_below(calculated_price, price, tolerance) ==
    flt(fsub(calculated_price, price), tolerance)

converged(calculated_price, price, tolerance) ==
    flt(fabs(fsub(calculated_price, price)), tolerance)

\* ytm_loop_body with the convergence check after the derivative: both
\* prices are evaluated before the call can return
ytm_loop_body_checking_last(a, cur, calculated_price, price_up) ==
    LET derivative == fdiv(fsub(price_up, calculated_price), delta)
    IN  IF ~IsNum(calculated_price)
        THEN [exit |-> "raised", ytm |-> cur, evals |-> 1]
        ELSE IF ~IsNum(derivative)
        THEN [exit |-> "raised", ytm |-> cur, evals |-> 2]
        ELSE IF converged(calculated_price, a.price, a.tolerance)
        THEN [exit |-> "converged", ytm |-> cur, evals |-> 2]
        ELSE IF Sgn(derivative) = 0
        THEN [exit |-> "zero_derivative", ytm |-> cur, evals |-> 2]
        ELSE [exit |-> "running",
              ytm |-> newton_update(cur, calculated_price, a.price, derivative),
              evals |-> 2]

\* ytm_loop_body without the break of line 96: the update divides by the
\* derivative whatever it is
ytm_loop_body_without_break(a, cur, calculated_price, price_up) ==
    LET derivative == fdiv(fsub(price_up, calculated_price), delta)
    IN  IF ~IsNum(calculated_price)
        THEN [exit |-> "raised", ytm |-> cur, evals |-> 1]
        ELSE IF converged(calculated_price, a.price, a.tolerance)
        THEN [exit |-> "converged", ytm |-> cur, evals |-> 1]
        ELSE IF ~IsNum(newton_update(cur, calculated_price, a.price, derivative))
        THEN [exit |-> "raised", ytm |-> cur, evals |-> 2]
        ELSE [exit |-> "running",
              ytm |-> newton_update(cur, calculated_price, a.price, derivative),
              evals |-> 2]

\* the body of the loop from its first statement on, calculated_price and
\* price_up being the two prices it computes (the second only if it gets there)
ytm_loop_body(a, cur, calculated_price, price_up) ==
    LET derivative == fdiv(fsub(price_up, calculated_price), delta)
    IN  IF ~IsNum(calculated_price)
        THEN [exit |-> "raised", ytm |-> cur, evals |-> 1]
        ELSE IF converged(calculated_price, a.price, a.tolerance)
        THEN [exit |-> "converged", ytm |-> cur, evals |-> 1]
        ELSE IF ~IsNum(derivative)
        THEN [exit |-> "raised", ytm |-> cur, evals |-> 2]
        ELSE IF Sgn(derivative) = 0
        THEN [exit |-> "zero_derivative", ytm |-> cur, evals |-> 2]
        ELSE [exit |-> "running",
              ytm |-> newton_update(cur, calculated_price, a.price, derivative),
              evals |-> 2]

\* ytm_iteration of a loop that goes on until it converges, whatever
\* max_iterations
ytm_iteration_unbounded(a, cur, done) ==
    ytm_loop_body(a, cur,
        calculate_bond_price(a.face_value, a.coupon_rate,
                             a.years_to_maturity, cur, a.frequency),
        calculate_bond_price(a.face_value, a.coupon_rate,
                             a.years_to_maturity, fadd(cur, delta),
                             a.frequency))

ytm_iteration(a, cur, done) ==
    IF done >= a.max_iterations
    THEN [exit |-> "exhausted", ytm |-> cur, evals |-> 0]
    ELSE ytm_loop_body(a, cur,
             calculate_bond_price(a.face_value, a.coupon_rate,
                                  a.years_to_maturity, cur, a.frequency),
             calculate_bond_price(a.face_value, a.coupon_rate,
                                  a.years_to_maturity, fadd(cur, delta),
                                  a.frequency))

(***************************************************************************)
(* cores/data_models.py: BondPosition and Portfolio.  A position is a      *)
(* record of the ISIN of its bond, its quantity (an int), its              *)
(* purchase_price and its current_price, None or a float in a list of one. *)
(***************************************************************************)
None == << >>

\* BondPosition.market_value: the current price unless it is None or 0.0
market_value(p) ==
    fmul(I(p.quantity),
         IF p.current_price # None /\ Sgn(p.current_price[1]) # 0
         THEN p.current_price[1] ELSE p.purchase_price)

book_value(p) == fmul(I(p.quantity), p.purchase_price)

\* BondPosition.unrealized_pnl booking the purchase price as the current one:
\* nothing gained or lost
unrealized_pnl_at_cost(p) == Zero

unrealized_pnl(p) ==
    IF p.current_price = None THEN Zero
    ELSE fmul(fsub(p.current_price[1], p.purchase_price), I(p.quantity))

\* sum(...) over the positions from the i-th on, entered with acc
RECURSIVE total_market_value(_, _, _)
total_market_value(ps, acc, i) ==
    IF i > Len(ps) THEN acc
    ELSE total_market_value(ps, fadd(acc, market_value(ps[i])), i + 1)

RECURSIVE total_book_value(_, _, _)
total_book_value(ps, acc, i) ==
    IF i > Len(ps) THEN acc
    ELSE total_book_value(ps, fadd(acc, book_value(ps[i])), i + 1)

RECURSIVE total_unrealized_pnl(_, _, _)
total_unrealized_pnl(ps, acc, i) ==
    IF i > Len(ps) THEN acc
    ELSE total_unrealized_pnl(ps, fadd(acc, unrealized_pnl(ps[i])), i + 1)

\* Portfolio.add_position: self.positions.append(position)
add_position(ps, position) == Append(ps, position)

\* remove_position that drops the first position of that ISIN only
RECURSIVE remove_first_position(_, _)
remove_first_position(ps, isin) ==
    IF ps = << >> THEN << >>
    ELSE IF Head(ps).isin = isin THEN Tail(ps)
    ELSE <<Head(ps)>> \o remove_first_position(Tail(ps), isin)

\* Portfolio.remove_position: [p for p in self.positions if p.bond.isin != isin]
RECURSIVE remove_position(_, _)
remove_position(ps, isin) ==
    IF ps = << >> THEN << >>
    ELSE IF Head(ps).isin # isin
    THEN <<Head(ps)>> \o remove_position(Tail(ps), isin)
    ELSE remove_position(Tail(ps), isin)

\* Portfolio.get_position_by_isin: the first position of that ISIN, or None
RECURSIVE get_position_by_isin(_, _)
get_position_by_isin(ps, isin) ==
    IF ps = << >> THEN None
    ELSE IF Head(ps).isin = isin THEN Head(ps)
    ELSE get_position_by_isin(Tail(ps), isin)

(***************************************************************************)
(* The pages.  A page reads its widgets and hands their values to the      *)
(* engine, the rates, entered in percent, divided by 100                   *)
(* (pages/1_Bond_Pricing.py).  Years to maturity are entered in steps of   *)
(* a quarter; here they are given in half years.                           *)
(***************************************************************************)
bond_inputs(face_value, coupon_pct, half_years, yield_pct, frequency) ==
    [face_value |-> I(face_value), coupon_rate |-> Num(coupon_pct, 100),
     years_to_maturity |-> Num(half_years, 2), yield_rate |-> Num(yield_pct, 100),
     frequency |-> frequency]

schedule_inputs(face_value, coupon_pct, half_years, frequency, start_date) ==
    [face_value |-> I(face_value), coupon_rate |-> Num(coupon_pct, 100),
     years_to_maturity |-> Num(half_years, 2), frequency |-> frequency,
     start_date |-> start_date]

\* the arguments of calculate_accrued_interest
accrual_inputs(face_value, coupon_pct, last_coupon_date, settlement_date, frequency) ==
    [face_value |-> I(face_value), coupon_rate |-> Num(coupon_pct, 100),
     last_coupon_date |-> last_coupon_date, settlement_date |-> settlement_date,
     frequency |-> frequency]

\* the arguments of calculate_current_yield: the coupon is a percentage
\* entered with two decimals (in hundredths of a percent here), divided by 100
current_yield_inputs(price, face_value, coupon_hundredths) ==
    [price |-> I(price), face_value |-> I(face_value),
     coupon_rate |-> fdiv(Num(coupon_hundredths, 100), I(100))]

\* the price handed to the solver: one that is quoted, or the price the
\* engine gives the same bond at a yield
solver_inputs(quote, face_value, coupon_pct, half_years, frequency, tolerance, max_iterations) ==
    [price |-> IF quote[1] = "quoted" THEN I(quote[2])
               ELSE calculate_bond_price(I(face_value), Num(coupon_pct, 100),
                        Num(half_years, 2), Num(quote[2], 100), frequency),
     face_value |-> I(face_value), coupon_rate |-> Num(coupon_pct, 100),
     years_to_maturity |-> Num(half_years, 2), frequency |-> frequency,
     tolerance |-> Num(tolerance[1], tolerance[2]),
     max_iterations |-> max_iterations]

\* the arguments of a call of the solver for a bond priced at par: the price
\* is the face value, here a number of millions
par_inputs(face_millions, coupon_pct, half_years, frequency, tolerance, max_iterations) ==
    [price |-> fmul(I(face_millions), I(1000000)),
     face_value |-> fmul(I(face_millions), I(1000000)),
     coupon_rate |-> Num(coupon_pct, 100),
     years_to_maturity |-> Num(half_years, 2), frequency |-> frequency,
     tolerance |-> Num(tolerance[1], tolerance[2]),
     max_iterations |-> max_iterations]

\* the pricing tab: the status shown next to the price, from the sign of
\* premium_discount = price - face_value
status(price, face_value) ==
    LET premium_discount == fsub(price, face_value)
    IN  IF Sgn(premium_discount) > 0 THEN "Prime"
        ELSE IF Sgn(premium_discount) < 0 THEN "Décote"
        ELSE "Au pair"

\* the pricing tab: the message that compares coupon and yield
coupon_yield_message(coupon_rate, yield_rate) ==
    IF flt(yield_rate, coupon_rate) THEN "à prime"
    ELSE IF flt(coupon_rate, yield_rate) THEN "à décote"
    ELSE "au pair"

\* BondPosition(bond, quantity, purchase_price, purchase_date, current_price):
\* the prices are given in cents; current is None for the field's default
position_inputs(isin, quantity, purchase_cents, current_cents) ==
    [isin |-> isin, quantity |-> quantity,
     purchase_price |-> Num(purchase_cents, 100),
     current_price |-> IF current_cents = None THEN None
                       ELSE <<Num(current_cents[1], 100)>>]

(***************************************************************************)
(* The interpreter.                                                        *)
(***************************************************************************)
FloatOperations == {"float.__add__", "float.__mul__", "float.__pow__"}

\* the exact result of a float operation
Exact(f, a) ==
    CASE f = "float.__add__" -> AddRaw(a[1], a[2])
      [] f = "float.__mul__" -> MulRaw(a[1], a[2])
      [] f = "float.__pow__" -> PowRaw(a[1], a[2])

Python(f, a) ==
    CASE f \in FloatOperations -> Fl(Exact(f, a))
      [] f = "float.__int__" -> Trunc(a[1])
      [] f = "calculate_bond_price" ->
             calculate_bond_price(a.face_value, a.coupon_rate,
                                  a.years_to_maturity, a.yield_rate, a.frequency)
      [] f = "calculate_macaulay_duration" ->
             calculate_macaulay_duration(a.face_value, a.coupon_rate,
                                         a.years_to_maturity, a.yield_rate, a.frequency)
      [] f = "calculate_modified_duration" ->
             calculate_modified_duration(a.face_value, a.coupon_rate,
                                         a.years_to_maturity, a.yield_rate, a.frequency)
      [] f = "calculate_convexity" ->
             calculate_convexity(a.face_value, a.coupon_rate,
                                 a.years_to_maturity, a.yield_rate, a.frequency)
      [] f = "generate_cash_flow_schedule" ->
             generate_cash_flow_schedule(a.face_value, a.coupon_rate,
                                         a.years_to_maturity, a.frequency, a.start_date)
      [] f = "calculate_accrued_interest" ->
             calculate_accrued_interest(a.face_value, a.coupon_rate,
                                        a.last_coupon_date, a.settlement_date, a.frequency)
      [] f = "calculate_current_yield" ->
             calculate_current_yield(a.price, a.face_value, a.coupon_rate)
      \* the next iteration of the loop of calculate_yield_to_maturity
      [] f = "calculate_yield_to_maturity" -> ytm_iteration(a[1], a[2], a[3])
      [] f = "bond_inputs" -> bond_inputs(a[1], a[2], a[3], a[4], a[5])
      [] f = "schedule_inputs" -> schedule_inputs(a[1], a[2], a[3], a[4], a[5])
      [] f = "accrual_inputs" -> accrual_inputs(a[1], a[2], a[3], a[4], a[5])
      [] f = "current_yield_inputs" -> current_yield_inputs(a[1], a[2], a[3])
      [] f = "solver_inputs" ->
             solver_inputs(a[1], a[2], a[3], a[4], a[5], a[6], a[7])
      [] f = "par_inputs" -> par_inputs(a[1], a[2], a[3], a[4], a[5], a[6])
      [] f = "position_inputs" -> position_inputs(a[1], a[2], a[3], a[4])
      [] f = "total_market_value" -> total_market_value(a, Zero, 1)
      [] f = "total_book_value" -> total_book_value(a, Zero, 1)
      [] f = "total_unrealized_pnl" -> total_unrealized_pnl(a, Zero, 1)

(***************************************************************************)
(* The values the widgets are set to.                                      *)
(***************************************************************************)
MaxHalfYears == 5
MaxRateSteps == 2
MaxBudget == 1
DefaultMaxIterations == 100
MaxPeriods == 200

\* 100 and 1000, and 0, which no function refuses
FaceValues == {0, 100, 1000}
\* 0%, 5%, ..., and a coupon above 100% (BondTerms asks of a coupon rate
\* only that it is not negative)
CouponPercents == {5 * k : k \in 0..(MaxRateSteps - 1)} \cup {150}
\* -1%, 0%, 5%, 10%, ..., and -100% and -200%: a yield of a period of -1
\* at one of the frequencies, and one beyond it
YieldPercents == {-200, -100, -1} \cup {5 * k : k \in 0..MaxRateSteps}
\* 0.5, 1, 1.5, ... years
HalfYears == 1..MaxHalfYears
Frequencies == {1, 2}
StartDates == {0, 59}
\* the frequencies of a schedule: the pages' (quarterly among them), and the
\* daily one, the greatest whose payment dates are a day apart
ScheduleFrequencies == Frequencies \cup {4, 365}
\* the days of the last coupon and of the settlement
CouponDates == {0, 59}
SettlementDates == {0, 30, 59, 100, 200}
\* the frequencies of an accrual: the pages', and the monthly one
AccrualFrequencies == Frequencies \cup {12}
\* the prices and coupons (hundredths of a percent) of a current yield
MarketPrices == {-100, 0, 95, 100, 1000, 1050}
CouponHundredths == {0, 21, 500}
\* 0.0001 (the default) and 0.5
Tolerances == {<<1, 10000>>, <<1, 2>>}
\* max_iterations: small budgets, and the default where the iterates are
\* floats (in real arithmetic an iterate doubles in length with every update)
Budgets == (0..MaxBudget) \cup (IF arith = "real" THEN {} ELSE {DefaultMaxIterations})
\* the prices a bond of face value 100 is quoted at, and the yields (in
\* percent) a price is computed at before it is handed to the solver
Quotes == {<<"quoted", 95>>, <<"quoted", 100>>}
              \cup {<<"priced", y>> : y \in {p \in YieldPercents : p > 0}}

\* the face values, in millions, of the bonds the solver is given at par: a
\* million, and a million millions, whose neighbouring floats are more than
\* the default tolerance apart
ParFaceMillions == {1, 1000000}

\* a session runs in one arithmetic throughout
Arithmetics == {"real", "binary64"}

\* the callers of the engine at once, and a caller that is in no call
Callers == {1, 2}
Idle == [op |-> "none", args |-> << >>, ret |-> Zero, exit |-> "none",
         ytm |-> Zero, it |-> 0, start_date |-> 0]

Init ==
    /\ arith \in Arithmetics
    /\ calls = [c \in Callers |-> Idle]
    /\ now = 0
    /\ positions = << >>
    /\ op = "none"
    /\ args = << >>
    /\ ret = Zero
    /\ exit = "none"
    /\ ytm = Zero
    /\ it = 0
    /\ evals = 0

\* a page calls the engine while it runs, top to bottom, once per rerun
Call(name, a) ==
    /\ op' = name
    /\ args' = a
    /\ ret' = Python(name, a)
    /\ UNCHANGED <<arith, positions, exit, ytm, it, evals, calls, now>>

BondPrice ==
    /\ op = "none"
    /\ \E fv \in FaceValues, cr \in CouponPercents, hy \in HalfYears,
          yr \in YieldPercents, fq \in Frequencies :
           Call("calculate_bond_price", Python("bond_inputs", <<fv, cr, hy, yr, fq>>))

MacaulayDuration ==
    /\ op = "none"
    /\ \E fv \in FaceValues, cr \in CouponPercents, hy \in HalfYears,
          yr \in YieldPercents, fq \in Frequencies :
           Call("calculate_macaulay_duration",
                Python("bond_inputs", <<fv, cr, hy, yr, fq>>))

ModifiedDuration ==
    /\ op = "none"
    /\ \E fv \in FaceValues, cr \in CouponPercents, hy \in HalfYears,
          yr \in YieldPercents, fq \in Frequencies :
           Call("calculate_modified_duration",
                Python("bond_inputs", <<fv, cr, hy, yr, fq>>))

Convexity ==
    /\ op = "none"
    /\ \E fv \in FaceValues, cr \in CouponPercents, hy \in HalfYears,
          yr \in YieldPercents, fq \in Frequencies :
           Call("calculate_convexity", Python("bond_inputs", <<fv, cr, hy, yr, fq>>))

CashFlowSchedule ==
    /\ op = "none"
    /\ \E fv \in FaceValues, cr \in CouponPercents, hy \in HalfYears,
          fq \in ScheduleFrequencies, sd \in StartDates :
           /\ hy * fq <= 2 * MaxPeriods
           /\ Call("generate_cash_flow_schedule",
                   Python("schedule_inputs", <<fv, cr, hy, fq, sd>>))

AccruedInterest ==
    /\ op = "none"
    /\ \E fv \in FaceValues, cr \in CouponPercents, last \in CouponDates,
          settlement \in SettlementDates, fq \in AccrualFrequencies :
           Call("calculate_accrued_interest",
                Python("accrual_inputs", <<fv, cr, last, settlement, fq>>))

CurrentYield ==
    /\ op = "none"
    /\ \E price \in MarketPrices, fv \in FaceValues, cr \in CouponHundredths :
           Call("calculate_current_yield",
                Python("current_yield_inputs", <<price, fv, cr>>))

\* the call of calculate_yield_to_maturity: ytm = coupon_rate, before the loop
YieldToMaturityCall(a) ==
    /\ op' = "calculate_yield_to_maturity"
    /\ args' = a
    /\ ret' = Zero
    /\ exit' = "running"
    /\ ytm' = a.coupon_rate
    /\ it' = 0
    /\ evals' = 0
    /\ UNCHANGED <<arith, positions, calls, now>>

YieldToMaturity ==
    /\ op = "none"
    /\ \E quote \in Quotes, cr \in CouponPercents, hy \in HalfYears,
          fq \in Frequencies, tol \in Tolerances, budget \in Budgets :
           YieldToMaturityCall(
               Python("solver_inputs", <<quote, 100, cr, hy, fq, tol, budget>>))

\* the solver is called with the face value of the bond as its price
YieldToMaturityAtPar ==
    /\ op = "none"
    /\ \E fm \in ParFaceMillions, cr \in CouponPercents, hy \in HalfYears,
          fq \in Frequencies, tol \in Tolerances, budget \in Budgets :
           YieldToMaturityCall(
               Python("par_inputs", <<fm, cr, hy, fq, tol, budget>>))

\* one iteration of the solver's loop, or its end
YieldToMaturityIterate ==
    /\ op = "calculate_yield_to_maturity"
    /\ exit = "running"
    /\ \E r \in {Python("calculate_yield_to_maturity", <<args, ytm, it>>)} :
           /\ exit' = r.exit
           /\ ytm' = r.ytm
           /\ evals' = evals + r.evals
           /\ it' = IF r.exit = "running" THEN it + 1 ELSE it
           /\ ret' = IF r.exit = "running" THEN ret
                     ELSE IF r.exit = "raised" THEN Raised
                     ELSE r.ytm
    /\ UNCHANGED <<arith, positions, op, args, calls, now>>

\* the page is run again (an input changed): the previous results are gone
Rerun ==
    /\ op # "none"
    /\ exit # "running"
    /\ op' = "none"
    /\ args' = << >>
    /\ ret' = Zero
    /\ exit' = "none"
    /\ ytm' = Zero
    /\ it' = 0
    /\ evals' = 0
    /\ UNCHANGED <<arith, positions, calls, now>>

Next ==
    \/ Rerun
    \/ BondPrice
    \/ MacaulayDuration
    \/ ModifiedDuration
    \/ Convexity
    \/ CashFlowSchedule
    \/ AccruedInterest
    \/ CurrentYield
    \/ YieldToMaturity
    \/ YieldToMaturityAtPar
    \/ YieldToMaturityIterate

Spec == Init /\ [][Next]_vars

\* The calls of calculate_yield_to_maturity alone.  A call that has begun
\* runs on: nothing suspends the for loop of lines 79-98 between two
\* iterations.
NextSolver ==
    \/ Rerun
    \/ YieldToMaturity
    \/ YieldToMaturityAtPar
    \/ YieldToMaturityIterate

\* the call is in its loop: YieldToMaturityIterate is enabled
InLoop == op = "calculate_yield_to_maturity" /\ exit = "running"

\* weak fairness of YieldToMaturityIterate, WF_vars(YieldToMaturityIterate),
\* its enabling condition written out
LoopRuns == []<>(~InLoop) \/ []<><<YieldToMaturityIterate>>_vars

SpecSolver == Init /\ [][NextSolver]_vars /\ LoopRuns

(***************************************************************************)
(* The portfolio of the session: positions are added and removed.          *)
(***************************************************************************)
MaxPositions == 3

Isins == {"FR01", "FR02"}
Quantities == {3}
\* 99.70, 1000.00
PurchaseCents == {9970, 100000}
\* no current price, 0.00, 101.35
CurrentCents == {None, <<0>>, <<10135>>}

\* Portfolio.add_position(position), of a position just built
AddPosition ==
    /\ Len(positions) < MaxPositions
    /\ \E isin \in Isins, q \in Quantities, pc \in PurchaseCents, cc \in CurrentCents :
           /\ op' = "add_position"
           /\ args' = [position |-> Python("position_inputs", <<isin, q, pc, cc>>)]
           /\ positions' = add_position(positions, args'.position)
    /\ UNCHANGED <<arith, ret, exit, ytm, it, evals, calls, now>>

\* Portfolio.remove_position(self, isin): args keeps the list the call found
RemovePosition ==
    /\ \E isin \in Isins :
           /\ op' = "remove_position"
           /\ args' = [self |-> positions, isin |-> isin]
           /\ positions' = remove_position(positions, isin)
    /\ UNCHANGED <<arith, ret, exit, ytm, it, evals, calls, now>>

NextPortfolio ==
    \/ AddPosition
    \/ RemovePosition

SpecPortfolio == Init /\ [][NextPortfolio]_vars

(***************************************************************************)
(* Several callers at once.  Each caller calls the engine's functions one  *)
(* after the other; the calls of different callers interleave at the       *)
(* steps below.  A call has its arguments and its local variables, and     *)
(* nothing else: bond_calculations has no module-level variable.           *)
(***************************************************************************)
MaxClock == 2
MaxConcurrentBudget == 3

\* generate_cash_flow_schedule, lines 262-263: start_date, or the wall clock
\* when it is None (None is << >> here, and the date d is <<d>>)
start_date_or_now(start_date) ==
    IF start_date = << >> THEN now ELSE start_date[1]

\* the calls a caller makes: a function and its arguments
ConcurrentCalls ==
    {<<"calculate_bond_price", Python("bond_inputs", <<100, 5, hy, 10, 2>>)>> :
        hy \in {2, 3}}
    \cup {<<"calculate_modified_duration",
            Python("bond_inputs", <<1000, 5, 3, y, 2>>)>> : y \in {0, 5}}
    \cup {<<"generate_cash_flow_schedule",
            [Python("schedule_inputs", <<100, 5, 2, 2, 0>>) EXCEPT !.start_date = sd]>> :
                sd \in {<< >>, <<59>>}}
    \cup {<<"calculate_yield_to_maturity",
            Python("solver_inputs",
                   <<quote, 100, 5, 3, 2, <<1, 10000>>,
                     IF arith = "real" THEN MaxBudget ELSE MaxConcurrentBudget>>)>> :
                quote \in {<<"quoted", 95>>, <<"priced", 10>>}}

\* caller c calls a function: its arguments are bound, and ytm = coupon_rate
\* in calculate_yield_to_maturity
CallerCalls(c) ==
    /\ calls[c].op = "none"
    /\ \E call \in ConcurrentCalls :
           calls' = [calls EXCEPT ![c] =
                        [op |-> call[1], args |-> call[2], ret |-> Zero,
                         exit |-> "running",
                         ytm |-> IF call[1] = "calculate_yield_to_maturity"
                                 THEN call[2].coupon_rate ELSE Zero,
                         it |-> 0, start_date |-> 0]]
    /\ UNCHANGED <<arith, positions, op, args, ret, exit, ytm, it, evals, now>>

\* the body of a function without a loop runs and returns; the schedule
\* reads the clock if it was given no start_date
CallerRuns(c) ==
    /\ calls[c].exit = "running"
    /\ calls[c].op # "calculate_yield_to_maturity"
    /\ calls' = [calls EXCEPT ![c] =
           IF calls[c].op = "generate_cash_flow_schedule"
           THEN [calls[c] EXCEPT
                    !.start_date = start_date_or_now(calls[c].args.start_date),
                    !.ret = Python("generate_cash_flow_schedule",
                                [calls[c].args EXCEPT
                                    !.start_date = start_date_or_now(@)]),
                    !.exit = "returned"]
           ELSE [calls[c] EXCEPT !.ret = Python(calls[c].op, calls[c].args),
                                 !.exit = "returned"]]
    /\ UNCHANGED <<arith, positions, op, args, ret, exit, ytm, it, evals, now>>

\* one iteration of the loop of calculate_yield_to_maturity, or its end,
\* started from a ytm that all the callers share: the one caller 1 keeps
CallerIteratesSharedYtm(c) ==
    /\ calls[c].exit = "running"
    /\ calls[c].op = "calculate_yield_to_maturity"
    /\ \E r \in {Python("calculate_yield_to_maturity",
                        <<calls[c].args, calls[1].ytm, calls[c].it>>)} :
           calls' = [calls EXCEPT ![c] =
                        [@ EXCEPT !.exit = r.exit,
                                  !.ytm = r.ytm,
                                  !.it = IF r.exit = "running" THEN @ + 1 ELSE @,
                                  !.ret = IF r.exit = "running" THEN @
                                          ELSE IF r.exit = "raised" THEN Raised
                                          ELSE r.ytm]]
    /\ UNCHANGED <<arith, positions, op, args, ret, exit, ytm, it, evals, now>>

\* one iteration of the loop of calculate_yield_to_maturity, or its end, in
\* the call of caller c
CallerIterates(c) ==
    /\ calls[c].exit = "running"
    /\ calls[c].op = "calculate_yield_to_maturity"
    /\ \E r \in {Python("calculate_yield_to_maturity",
                        <<calls[c].args, calls[c].ytm, calls[c].it>>)} :
           calls' = [calls EXCEPT ![c] =
                        [@ EXCEPT !.exit = r.exit,
                                  !.ytm = r.ytm,
                                  !.it = IF r.exit = "running" THEN @ + 1 ELSE @,
                                  !.ret = IF r.exit = "running" THEN @
                                          ELSE IF r.exit = "raised" THEN Raised
                                          ELSE r.ytm]]
    /\ UNCHANGED <<arith, positions, op, args, ret, exit, ytm, it, evals, now>>

\* the caller has its result and is free for its next call
CallerReturns(c) ==
    /\ calls[c].exit \notin {"none", "running"}
    /\ calls' = [calls EXCEPT ![c] = Idle]
    /\ UNCHANGED <<arith, positions, op, args, ret, exit, ytm, it, evals, now>>

\* a day passes
Tick ==
    /\ now < MaxClock
    /\ now' = now + 1
    /\ UNCHANGED <<arith, positions, op, args, ret, exit, ytm, it, evals, calls>>

NextConcurrent ==
    \/ Tick
    \/ \E c \in Callers : CallerCalls(c)
    \/ \E c \in Callers : CallerRuns(c)
    \/ \E c \in Callers : CallerIterates(c)
    \/ \E c \in Callers : CallerReturns(c)

SpecConcurrent == Init /\ [][NextConcurrent]_vars

(***************************************************************************)
(* Properties.  Where a property states that a result is some number, the  *)
(* result is that number exactly in real arithmetic, and up to the         *)
(* rounding of the float operations in binary64.                           *)
(***************************************************************************)
\* x and y agree up to rounding: |x - y| <= |y| / 10^9
Near(x, y) == Le(Abs(AddRaw(x, Neg(y))), MulRaw(Q(1, 10^9), Abs(y)))

\* the result x is the number y
Same(x, y) == IF arith = "real" THEN x = y ELSE Near(x, y)

\* 1 + yield_rate / frequency, exactly
DiscountBase(yield_rate, frequency) == Add(One, Div(yield_rate, I(frequency)))

\* floor(years_to_maturity * frequency), exactly (years_to_maturity >= 0)
Periods(years_to_maturity, frequency) == Trunc(Mul(years_to_maturity, I(frequency)))

\* the sum over t >= from of amount_t / base^(t - from + 1), amount_t the
\* t-th amount of a schedule: (amount_from + the sum from the next on) / base
RECURSIVE DiscountedSum(_, _, _)
DiscountedSum(schedule, base, from) ==
    IF from > Len(schedule) THEN Zero
    ELSE MulRaw(AddRaw(schedule[from][2], DiscountedSum(schedule, base, from + 1)),
                <<base[1], base[3], base[2]>>)

PriceCall == op = "calculate_bond_price"

\* the bond of the call is one of C1: face_value > 0, coupon_rate >= 0,
\* years_to_maturity > 0, yield_rate # 0 and 1 + yield_rate / frequency > 0
DiscountedTerms ==
    /\ Sgn(args.face_value) > 0
    /\ Sgn(args.coupon_rate) >= 0
    /\ args.frequency >= 1
    /\ Sgn(args.years_to_maturity) > 0
    /\ Sgn(args.yield_rate) # 0
    /\ Sgn(DiscountBase(args.yield_rate, args.frequency)) > 0

\* the explicit discounted cash-flow sum of the bond of the call
ScheduleValue ==
    Norm(DiscountedSum(generate_cash_flow_schedule(args.face_value, args.coupon_rate,
                           args.years_to_maturity, args.frequency, 0),
                       DiscountBase(args.yield_rate, args.frequency), 1))

Yields == {Num(p, 100) : p \in YieldPercents}

\* the price of the bond of the call at the yield y
PriceAt(y) ==
    calculate_bond_price(args.face_value, args.coupon_rate,
                         args.years_to_maturity, y, args.frequency)

\* the bond of the call has valid terms: face_value > 0, coupon_rate >= 0,
\* frequency >= 1 and at least one period
ValidTerms ==
    /\ Sgn(args.face_value) > 0
    /\ Sgn(args.coupon_rate) >= 0
    /\ args.frequency >= 1
    /\ Periods(args.years_to_maturity, args.frequency) >= 1

\* C2: for valid terms and two yields y1 < y2 with 1 + y/frequency > 0, zero
\* and negative yields included, the price at y1 is at least the price at y2
\* (y1 is the yield of the call, y2 any greater yield).
C2_PriceNonIncreasingInYield ==
    (PriceCall /\ ValidTerms
       /\ Sgn(DiscountBase(args.yield_rate, args.frequency)) > 0)
    => \A y2 \in Yields :
           (Lt(args.yield_rate, y2) /\ Sgn(DiscountBase(y2, args.frequency)) > 0)
           => Le(PriceAt(y2), ret)

\* C3 (as stated): when yield_rate equals coupon_rate (both may be 0), the
\* price returned is face_value.
C3_ParWhenYieldEqualsCoupon_AsStated ==
    (PriceCall /\ args.yield_rate = args.coupon_rate) => ret = args.face_value

\* C3 (amended): when yield_rate equals coupon_rate (both may be 0), the
\* price returned is face_value exactly in real arithmetic, and face_value
\* up to rounding in binary64.
C3_ParWhenYieldEqualsCoupon ==
    (PriceCall /\ args.yield_rate = args.coupon_rate)
    => Same(ret, args.face_value)

\* C3 witness: a coupon bond priced in binary64 at a yield equal to its
\* positive coupon rate: at par up to rounding, and not exactly.
C3_Witness ==
    /\ PriceCall
    /\ args.yield_rate = args.coupon_rate
    /\ Sgn(args.coupon_rate) > 0
    /\ Periods(args.years_to_maturity, args.frequency) >= 1
    /\ arith = "binary64"
    /\ Same(ret, args.face_value)
    /\ ret # args.face_value

SolverCall == op = "calculate_yield_to_maturity"

\* the call of the solver has returned a value: from its convergence check
\* (line 85) or after its loop (line 100)
Returned == SolverCall /\ exit \in {"converged", "exhausted", "zero_derivative"}

\* |calculate_bond_price(..., ret, ...) - price| < tolerance, as the engine
\* computes and compares them
WithinTolerance ==
    flt(fabs(fsub(PriceAt(ret), args.price)), args.tolerance)

\* C4 (as stated): for every input, the value returned by
\* calculate_yield_to_maturity prices the bond within tolerance of price.
C4_ReturnedYieldPricesWithinTolerance_AsStated ==
    Returned => WithinTolerance

\* C4 (amended): a value returned from the convergence check prices the bond
\* within tolerance of price (a value returned after the loop, the budget
\* exhausted or the derivative zero, need not).
C4_ReturnedYieldPricesWithinTolerance ==
    (SolverCall /\ exit = "converged") => WithinTolerance

\* C4 witness: a call with the default tolerance and budget that has
\* converged in binary64 after several updates of ytm, on a yield that prices
\* the bond within tolerance.
C4_Witness ==
    /\ SolverCall
    /\ arith = "binary64"
    /\ exit = "converged"
    /\ it >= 2
    /\ args.tolerance = delta
    /\ args.max_iterations = DefaultMaxIterations
    /\ WithinTolerance

\* the call of the solver is a round trip with the defaults: valid terms,
\* the price that of the same bond at a yield in (0, 0.5), the tolerance and
\* the budget the defaults
RoundTrip ==
    /\ SolverCall
    /\ ValidTerms
    /\ args.tolerance = delta
    /\ args.max_iterations = DefaultMaxIterations
    /\ \E y \in Yields : Sgn(y) > 0 /\ Lt(y, Num(1, 2)) /\ args.price = PriceAt(y)

\* C5: a round trip returns through the convergence check, a yield that
\* agrees with the one the price was computed at as far as the price
\* tolerance tells: it prices the bond within tolerance.
C5_RoundTripConverges ==
    (RoundTrip /\ exit # "running") => (exit = "converged" /\ WithinTolerance)

\* the call prices a bond at zero yield: face_value > 0, coupon_rate >= 0
ZeroYieldCall ==
    /\ PriceCall
    /\ Sgn(args.face_value) > 0
    /\ Sgn(args.coupon_rate) >= 0
    /\ Sgn(args.yield_rate) = 0

\* face_value * coupon_rate / frequency, exactly
CouponPayment == MulRaw(MulRaw(args.face_value, args.coupon_rate), Q(1, args.frequency))

\* (face_value * coupon_rate / frequency) * (years_to_maturity * frequency)
\* + face_value, exactly
UnflooredValue ==
    Norm(AddRaw(MulRaw(CouponPayment, MulRaw(args.years_to_maturity, I(args.frequency))),
                args.face_value))

\* coupon_payment * floor(years_to_maturity * frequency) + face_value, exactly
FlooredValue ==
    Norm(AddRaw(MulRaw(CouponPayment, I(Periods(args.years_to_maturity, args.frequency))),
                args.face_value))

\* the sum of the amounts of the cash-flow schedule of the bond of the call
UndiscountedSchedule ==
    Norm(DiscountedSum(generate_cash_flow_schedule(args.face_value, args.coupon_rate,
                           args.years_to_maturity, args.frequency, 0),
                       One, 1))

WholePeriods ==
    Mul(args.years_to_maturity, I(args.frequency))
        = I(Periods(args.years_to_maturity, args.frequency))

MacaulayCall == op = "calculate_macaulay_duration"

\* the bond of the call is one of C7: face_value > 0, coupon_rate >= 0, at
\* least one period and 1 + yield_rate / frequency > 0
DurationTerms ==
    /\ ValidTerms
    /\ Sgn(DiscountBase(args.yield_rate, args.frequency)) > 0

FlooredMaturity ==
    Q(Periods(args.years_to_maturity, args.frequency), args.frequency)

ZeroCouponCall ==
    /\ MacaulayCall
    /\ DurationTerms
    /\ Sgn(args.coupon_rate) = 0

\* C8 (as stated): for a zero-coupon bond with face_value > 0, n >= 1 periods
\* and 1 + yield_rate / frequency > 0, calculate_macaulay_duration returns
\* n / frequency (years_to_maturity when years_to_maturity * frequency is an
\* integer).
C8_ZeroCouponDuration_AsStated ==
    ZeroCouponCall =>
        /\ ret = FlooredMaturity
        /\ WholePeriods => ret = args.years_to_maturity

\* C8 (amended): the same, exactly in real arithmetic and up to rounding in
\* binary64.
C8_ZeroCouponDuration ==
    ZeroCouponCall =>
        /\ IsNum(ret)
        /\ Same(ret, FlooredMaturity)
        /\ WholePeriods => Same(ret, args.years_to_maturity)

\* C8 witness: a zero-coupon bond with a fractional last period, discounted
\* at a positive yield, whose duration is that of its whole periods, short of
\* its maturity.
C8_Witness ==
    /\ ZeroCouponCall
    /\ Sgn(args.yield_rate) > 0
    /\ ~WholePeriods
    /\ Same(ret, FlooredMaturity)
    /\ Lt(ret, args.years_to_maturity)

ModifiedCall == op = "calculate_modified_duration"

\* calculate_macaulay_duration of the arguments of the call
Macaulay ==
    calculate_macaulay_duration(args.face_value, args.coupon_rate,
        args.years_to_maturity, args.yield_rate, args.frequency)

\* the modified duration is the Macaulay duration divided by
\* 1 + yield_rate / frequency
ModifiedIsMacaulayDiscounted ==
    ret = fdiv(Macaulay, fadd(One, fdiv(args.yield_rate, I(args.frequency))))

\* C9 (as stated): where both are defined, calculate_modified_duration is
\* calculate_macaulay_duration of the same arguments divided by
\* 1 + yield_rate / frequency; it is strictly smaller for a positive yield
\* and equal to it at zero yield.
C9_ModifiedFromMacaulay_AsStated ==
    (ModifiedCall /\ IsNum(ret) /\ IsNum(Macaulay)) =>
        /\ ModifiedIsMacaulayDiscounted
        /\ Sgn(args.yield_rate) > 0 => Lt(ret, Macaulay)
        /\ Sgn(args.yield_rate) = 0 => ret = Macaulay

\* C9 (amended): the same, strictly smaller for a positive yield when the
\* Macaulay duration is positive (it is 0, and so is the modified duration,
\* for a bond without a whole period).
C9_ModifiedFromMacaulay ==
    (ModifiedCall /\ IsNum(ret) /\ IsNum(Macaulay)) =>
        /\ ModifiedIsMacaulayDiscounted
        /\ (Sgn(args.yield_rate) > 0 /\ Sgn(Macaulay) > 0) => Lt(ret, Macaulay)
        /\ (Sgn(args.yield_rate) > 0 /\ Sgn(Macaulay) = 0) => ret = Macaulay
        /\ Sgn(args.yield_rate) = 0 => ret = Macaulay

\* C9 witness: a semi-annual coupon bond at a positive yield whose modified
\* duration is strictly below its Macaulay duration.
C9_Witness ==
    /\ ModifiedCall
    /\ args.frequency = 2
    /\ Sgn(args.coupon_rate) > 0
    /\ Sgn(args.yield_rate) > 0
    /\ Periods(args.years_to_maturity, args.frequency) >= 2
    /\ IsNum(ret)
    /\ Lt(Zero, ret)
    /\ Lt(ret, Macaulay)

ConvexityCall == op = "calculate_convexity"

\* C10: for face_value > 0, coupon_rate > 0, yield_rate > 0, frequency >= 1
\* and at least one period, calculate_convexity returns a value >= 0.
C10_ConvexityNonNegative ==
    (ConvexityCall /\ ValidTerms /\ Sgn(args.coupon_rate) > 0
        /\ Sgn(args.yield_rate) > 0)
    => (IsNum(ret) /\ Le(Zero, ret))

\* C10 witness: a positive-coupon bond of several periods at a positive
\* yield, with positive convexity.
C10_Witness ==
    /\ ConvexityCall
    /\ ValidTerms
    /\ Sgn(args.coupon_rate) > 0
    /\ Sgn(args.yield_rate) > 0
    /\ Periods(args.years_to_maturity, args.frequency) >= 2
    /\ IsNum(ret)
    /\ Lt(Zero, ret)

ScheduleCall == op = "generate_cash_flow_schedule"

\* C11: generate_cash_flow_schedule returns a list of exactly
\* floor(years_to_maturity * frequency) entries, the empty list when that
\* count is 0.
C11_ScheduleLength ==
    ScheduleCall =>
        /\ Len(ret) = Periods(args.years_to_maturity, args.frequency)
        /\ Periods(args.years_to_maturity, args.frequency) = 0 => ret = << >>

\* C11 witness: a bond maturing before its first coupon date, whose schedule
\* is empty.
C11_Witness ==
    /\ ScheduleCall
    /\ Sgn(args.years_to_maturity) > 0
    /\ Periods(args.years_to_maturity, args.frequency) = 0
    /\ ret = << >>

\* face_value * coupon_rate / frequency + face_value, exactly
FinalPayment == Norm(AddRaw(CouponPayment, args.face_value))

\* C12: in a schedule of n >= 1 entries (face_value > 0) every entry but the
\* last has amount face_value * coupon_rate / frequency, and the last, and
\* only the last, has that amount plus face_value: the face value is repaid
\* exactly once.
C12_ScheduleAmounts ==
    (ScheduleCall /\ Len(ret) >= 1 /\ Sgn(args.face_value) > 0) =>
        /\ \A i \in 1..(Len(ret) - 1) :
               /\ Same(ret[i][2], Norm(CouponPayment))
               /\ ~Same(ret[i][2], FinalPayment)
        /\ Same(ret[Len(ret)][2], FinalPayment)
        /\ Cardinality({i \in 1..Len(ret) : Same(ret[i][2], FinalPayment)}) = 1

\* C12 witness: a schedule of several coupons, the last one paid with the
\* face value.
C12_Witness ==
    /\ ScheduleCall
    /\ Sgn(args.coupon_rate) > 0
    /\ Len(ret) >= 3
    /\ Same(ret[1][2], Norm(CouponPayment))
    /\ Same(ret[Len(ret)][2], FinalPayment)
    /\ Lt(ret[1][2], ret[Len(ret)][2])

\* the days from start_date to the i-th payment date of the schedule returned
DaysToPayment(i) == ret[i][1] - args.start_date

\* C13: the date of the i-th entry of the schedule is start_date plus
\* i * 365 / frequency days rounded to the nearest day (either neighbour
\* when the quotient lies half-way): it is within half a day of
\* start_date + i * 365 / frequency.
C13_PaymentDateRounded ==
    ScheduleCall =>
        \A i \in 1..Len(ret) :
            /\ 2 * args.frequency * DaysToPayment(i) - 2 * i * 365 <= args.frequency
            /\ 2 * i * 365 - 2 * args.frequency * DaysToPayment(i) <= args.frequency

\* C14: for a frequency in 1..365 the payment dates of the schedule are
\* strictly increasing with the period index and all strictly later than
\* start_date.
C14_PaymentDatesIncrease ==
    (ScheduleCall /\ args.frequency \in 1..365) =>
        \A i \in 1..Len(ret) :
            /\ ret[i][1] > args.start_date
            /\ i > 1 => ret[i][1] > ret[i - 1][1]

\* C14 witness: a daily schedule, its payment dates the days after
\* start_date, one after the other.
C14_Witness ==
    /\ ScheduleCall
    /\ args.frequency = 365
    /\ Len(ret) >= 100
    /\ \A i \in 1..Len(ret) : ret[i][1] = args.start_date + i

AccrualCall == op = "calculate_accrued_interest"

\* the whole days from last_coupon_date to settlement_date
DaysAccrued == args.settlement_date - args.last_coupon_date

\* (face_value * coupon_rate / frequency) * (d / (365 / frequency)), exactly
AccruedValue ==
    Norm(MulRaw(CouponPayment, Q(DaysAccrued * args.frequency, 365)))

\* C15: calculate_accrued_interest returns (face_value * coupon_rate /
\* frequency) * (d / (365 / frequency)), d the days from last_coupon_date to
\* settlement_date; a settlement before the last coupon date is not rejected
\* and gives the negative amount, and d = 0 gives 0.
C15_AccruedInterest ==
    AccrualCall =>
        /\ IsNum(ret)
        /\ Same(ret, AccruedValue)
        /\ (DaysAccrued < 0 /\ Sgn(args.face_value) > 0 /\ Sgn(args.coupon_rate) > 0)
               => Sgn(ret) < 0
        /\ DaysAccrued = 0 => ret = Zero

\* C15 witness: a settlement before the last coupon date of a coupon bond,
\* with a negative accrued interest.
C15_Witness ==
    /\ AccrualCall
    /\ DaysAccrued < 0
    /\ Sgn(args.coupon_rate) > 0
    /\ IsNum(ret)
    /\ Sgn(ret) < 0
    /\ Same(ret, AccruedValue)

CurrentYieldCall == op = "calculate_current_yield"

\* the price of the call lies strictly between 0 and face_value
BelowPar == Sgn(args.price) > 0 /\ Lt(args.price, args.face_value)

ValidatedCall ==
    /\ op \in {"calculate_bond_price", "calculate_macaulay_duration",
               "calculate_convexity", "calculate_yield_to_maturity",
               "generate_cash_flow_schedule"}
    /\ exit # "running"

\* the arguments of the call violate the domain: no whole period, or a face
\* value or a frequency that is not positive
DomainViolation ==
    \/ Periods(args.years_to_maturity, args.frequency) < 1
    \/ Sgn(args.face_value) <= 0
    \/ args.frequency <= 0

\* C17: a call of calculate_bond_price, calculate_macaulay_duration,
\* calculate_convexity, calculate_yield_to_maturity or
\* generate_cash_flow_schedule with a domain violation ends in an error and
\* returns neither a number nor a schedule (the engine has no validation
\* error of its own: the only error a call can end in is the exception of a
\* float operation).
C17_DomainViolationRejected ==
    (ValidatedCall /\ DomainViolation) => ret = Raised

\* the call divides by a price that is zero: the price argument of
\* calculate_current_yield, or the price the bond of a duration or convexity
\* call evaluates to
ZeroPriceDenominator ==
    \/ CurrentYieldCall /\ Sgn(args.price) = 0
    \/ /\ op \in {"calculate_macaulay_duration", "calculate_modified_duration",
                  "calculate_convexity"}
       /\ PriceAt(args.yield_rate) = Zero

\* C18: a call of calculate_current_yield, calculate_macaulay_duration,
\* calculate_modified_duration or calculate_convexity whose price in the
\* denominator is zero ends in an error (the ZeroDivisionError of the
\* division) and returns no value.
C18_ZeroPriceRaises ==
    ZeroPriceDenominator => ret = Raised

\* C18 witness: the Macaulay duration of a bond of face value 0 over several
\* periods, its price 0, ended in the error.
C18_Witness ==
    /\ MacaulayCall
    /\ Sgn(args.face_value) = 0
    /\ Periods(args.years_to_maturity, args.frequency) >= 2
    /\ Sgn(args.yield_rate) > 0
    /\ PriceAt(args.yield_rate) = Zero
    /\ ret = Raised

\* C19: calculate_bond_price raises no error whatever the yield, the yield
\* -frequency (a discount base of 0) and the yields below it included: for a
\* bond with at least one period the call returns a number.
C19_PriceNeverRaises ==
    (PriceCall /\ Periods(args.years_to_maturity, args.frequency) >= 1)
    => IsNum(ret)

\* calculate_yield_to_maturity run alone from the iteration `done` on, its
\* local ytm being cur: what it returns
RECURSIVE SolvedAlone(_, _, _)
SolvedAlone(a, cur, done) ==
    LET r == Python("calculate_yield_to_maturity", <<a, cur, done>>)
    IN  IF r.exit = "running" THEN SolvedAlone(a, r.ytm, done + 1)
        ELSE IF r.exit = "raised" THEN Raised
        ELSE r.ytm

\* what the function of a call returns when it is run alone on the
\* arguments of the call (and, for a schedule without start_date, at the
\* time the call read on the clock)
ReturnedAlone(call) ==
    IF call.op = "calculate_yield_to_maturity"
    THEN SolvedAlone(call.args, call.args.coupon_rate, 0)
    ELSE IF call.op = "generate_cash_flow_schedule"
    THEN Python("generate_cash_flow_schedule",
                [call.args EXCEPT !.start_date = IF @ = << >> THEN call.start_date
                                                 ELSE @[1]])
    ELSE Python(call.op, call.args)

\* every call that has ended returned what it returns alone
CallsReturnAlone ==
    \A c \in Callers :
        calls[c].exit \notin {"none", "running"}
            => calls[c].ret = ReturnedAlone(calls[c])

\* a step leaves the arguments of every call in progress as they were, and
\* nothing but the clock itself moves the clock
ArgumentsKept ==
    /\ \A c \in Callers :
           (calls[c].op # "none" /\ calls'[c].op # "none")
               => calls'[c].args = calls[c].args
    /\ calls' # calls => now' = now

Solving == SolverCall /\ exit = "running"

\* the updates and the price evaluations made so far stay within the budget
WithinBudget ==
    SolverCall =>
        /\ it <= args.max_iterations
        /\ evals <= 2 * it + 2
        /\ evals <= 2 * args.max_iterations

\* the loop has run out of iterations: the last ytm is returned as a number
ExhaustedReturnsLastYtm ==
    (SolverCall /\ exit = "exhausted") =>
        /\ it = args.max_iterations
        /\ evals = 2 * args.max_iterations
        /\ IsNum(ret)
        /\ ret = ytm
        /\ args.max_iterations = 0 => ret = args.coupon_rate

\* C21: calculate_yield_to_maturity always terminates, after at most
\* max_iterations updates and 2 * max_iterations evaluations of
\* calculate_bond_price; when the iterations are exhausted it returns the ytm
\* of the last update as a number, which is coupon_rate when max_iterations
\* is 0.
C21_SolverTerminatesWithinBudget ==
    /\ []WithinBudget
    /\ []ExhaustedReturnsLastYtm
    /\ Solving ~> ~Solving

\* C21 witness: a budget of at least one iteration is exhausted, and the ytm
\* of the last update, which is not coupon_rate, is returned.
C21_Witness ==
    /\ SolverCall
    /\ exit = "exhausted"
    /\ args.max_iterations >= 1
    /\ it = args.max_iterations
    /\ evals = 2 * args.max_iterations
    /\ ret = ytm
    /\ ret # args.coupon_rate

(***************************************************************************)
(* The solver's step.                                                      *)
(***************************************************************************)
\* (price(ytm + 0.0001) - price(ytm)) / 0.0001 at the ytm of the call
Derivative == fdiv(fsub(PriceAt(fadd(ytm, delta)), PriceAt(ytm)), delta)

\* the call is in an iteration whose convergence check fails
Unconverged ==
    /\ Solving
    /\ it < args.max_iterations
    /\ ~converged(PriceAt(ytm), args.price, args.tolerance)

\* the iteration ends the call on a zero derivative, or updates ytm
StopsOrUpdates ==
    Unconverged =>
        IF Sgn(Derivative) = 0
        THEN /\ exit' = "zero_derivative"
             /\ IsNum(ret')
             /\ ret' = ytm
             /\ ytm' = ytm
             /\ it' = it
             /\ evals' = evals + 2
        ELSE /\ exit' = "running"
             /\ ytm' = fsub(ytm, fdiv(fsub(PriceAt(ytm), args.price), Derivative))
             /\ it' = it + 1
             /\ evals' = evals + 2

\* a call that has stopped on a zero derivative does nothing more
StoppedForGood ==
    (SolverCall /\ exit = "zero_derivative") => op' = "none"

\* C22: in an iteration of calculate_yield_to_maturity that has not
\* converged, a forward-difference derivative of exactly zero ends the call:
\* the current ytm is returned unchanged, with no further update or price
\* evaluation and no division error; otherwise ytm becomes
\* ytm - (price(ytm) - target) / derivative.
C22_ZeroDerivativeStops ==
    [][StopsOrUpdates /\ StoppedForGood]_vars

\* C22 witness: a call has stopped on a zero derivative after at least one
\* update, and has returned the ytm of that update.
C22_Witness ==
    /\ SolverCall
    /\ exit = "zero_derivative"
    /\ it >= 1
    /\ Sgn(Derivative) = 0
    /\ ret = ytm
    /\ ret # args.coupon_rate

(***************************************************************************)
(* The solver's first check.                                               *)
(***************************************************************************)
\* the price of the bond at its coupon rate is within tolerance of the price
\* of the call, and the loop has an iteration to check it in
ConvergedAtCouponRate ==
    /\ SolverCall
    /\ args.max_iterations >= 1
    /\ converged(PriceAt(args.coupon_rate), args.price, args.tolerance)

\* the call has returned coupon_rate from the first check, after one price
\* evaluation and no update
ReturnedCouponRate ==
    /\ exit = "converged"
    /\ ret = args.coupon_rate
    /\ it = 0
    /\ evals = 1

\* the call gives a bond of valid terms with its face value as price
ParCall == SolverCall /\ ValidTerms /\ args.price = args.face_value

\* the call has begun with ytm = coupon_rate and nothing evaluated
StartsAtCouponRate ==
    (SolverCall /\ it = 0 /\ evals = 0 /\ exit = "running") => ytm = args.coupon_rate

\* C23 (as stated): the solver starts from coupon_rate and checks
\* convergence before any update; when the price at coupon_rate is within
\* tolerance of the target it returns exactly coupon_rate after one price
\* evaluation, and for a target equal to face_value it returns exactly
\* coupon_rate for every valid bond.
C23_ParReturnsCouponRate_AsStated ==
    /\ StartsAtCouponRate
    /\ (ConvergedAtCouponRate /\ exit # "running") => ReturnedCouponRate
    /\ (ParCall /\ args.max_iterations >= 1 /\ exit # "running")
           => (Returned /\ ret = args.coupon_rate)

\* C23 (amended): the same, a target equal to face_value returning
\* coupon_rate up to the rounding of the price: exactly when the price at
\* coupon_rate is within tolerance of face_value, and otherwise a yield
\* within a relative 1e-9 of it.
C23_ParReturnsCouponRate ==
    /\ StartsAtCouponRate
    /\ (ConvergedAtCouponRate /\ exit # "running") => ReturnedCouponRate
    /\ (ParCall /\ args.max_iterations >= 1 /\ exit # "running")
           => (Returned /\ Same(ret, args.coupon_rate))

\* C23 witness: a bond with a coupon, given at par with the default
\* tolerance, has returned its coupon rate from the first check.
C23_Witness ==
    /\ ParCall
    /\ Sgn(args.coupon_rate) > 0
    /\ args.tolerance = delta
    /\ ConvergedAtCouponRate
    /\ ReturnedCouponRate

(***************************************************************************)
(* The solver below par.                                                   *)
(***************************************************************************)
\* the call gives, with the default tolerance and budget, a coupon bond of
\* at least one period and a price above 0 and below its face value
BelowParCall ==
    /\ SolverCall
    /\ Sgn(args.coupon_rate) > 0
    /\ Sgn(args.face_value) > 0
    /\ Periods(args.years_to_maturity, args.frequency) >= 1
    /\ Sgn(args.price) > 0
    /\ Lt(args.price, args.face_value)
    /\ args.tolerance = delta
    /\ args.max_iterations = DefaultMaxIterations

\* C24: for a coupon bond and a price above 0 and strictly below face_value,
\* the solver with its defaults converges in fewer than 100 iterations and
\* returns a yield strictly greater than coupon_rate.
C24_BelowParYieldAboveCoupon ==
    (BelowParCall /\ exit # "running")
        => /\ exit = "converged"
           /\ it < DefaultMaxIterations
           /\ Lt(args.coupon_rate, ret)

(***************************************************************************)
(* The convexity formula.                                                  *)
(***************************************************************************)
\* the sum over t = from..n of t * (t + 1) * cash_flow_t / base^(t - from + 1),
\* exactly, cash_flow_t the coupon, plus face_value at t = n: (the term of
\* from + the sum from the next on) / base
RECURSIVE ConvexityTerms(_, _, _)
ConvexityTerms(base, n, from) ==
    IF from > n THEN Zero
    ELSE MulRaw(AddRaw(MulRaw(Q(from * (from + 1), 1),
                              IF from = n THEN AddRaw(CouponPayment, args.face_value)
                              ELSE CouponPayment),
                       ConvexityTerms(base, n, from + 1)),
                <<base[1], base[3], base[2]>>)

\* the sum of the terms divided by price * base^2 * frequency^2
ConvexityValue(price, base) ==
    Div(Norm(ConvexityTerms(base, Periods(args.years_to_maturity, args.frequency), 1)),
        Norm(MulRaw(MulRaw(price, PowRaw(base, 2)),
                    Q(args.frequency * args.frequency, 1))))

\* n * (n + 1) / (frequency^2 * base^2)
ZeroCouponConvexity(base) ==
    Div(Q(Periods(args.years_to_maturity, args.frequency)
            * (Periods(args.years_to_maturity, args.frequency) + 1),
          args.frequency * args.frequency),
        Norm(PowRaw(base, 2)))

\* the formula is defined: the price is a number other than 0, and so is
\* the base 1 + period_yield
ConvexityDefined(price, base) ==
    Sgn(base) # 0 /\ IsNum(price) /\ Sgn(price) # 0

\* the result of the call is the formula's value, price being that of the
\* engine and base 1 + period_yield
ConvexityIsFormula(price, base) ==
    ConvexityDefined(price, base) =>
        /\ IsNum(ret)
        /\ Same(ret, ConvexityValue(price, base))
        /\ (Sgn(args.coupon_rate) = 0 /\ Sgn(args.yield_rate) # 0)
               => Same(ret, ZeroCouponConvexity(base))

PageInputs ==
    /\ Le(I(100), args.face_value)
    /\ Le(Zero, args.coupon_rate) /\ Le(args.coupon_rate, Num(20, 100))
    /\ Le(Zero, args.yield_rate) /\ Le(args.yield_rate, Num(20, 100))
    /\ Le(Q(1, 4), args.years_to_maturity) /\ Le(args.years_to_maturity, I(50))
    /\ args.frequency \in {1, 2, 4, 12}

\* the status and the message say the same
StatusAgreesWithMessage ==
    /\ status(ret, args.face_value) = "Prime"
           <=> coupon_yield_message(args.coupon_rate, args.yield_rate) = "à prime"
    /\ status(ret, args.face_value) = "Décote"
           <=> coupon_yield_message(args.coupon_rate, args.yield_rate) = "à décote"
    /\ status(ret, args.face_value) = "Au pair"
           <=> coupon_yield_message(args.coupon_rate, args.yield_rate) = "au pair"

\* C26: for every input the pricing tab accepts, the status drawn from the
\* sign of price - face_value (Prime, Décote, Au pair) agrees with the message
\* drawn from the comparison of coupon_rate and yield_rate.
C26_StatusMatchesMessage ==
    (PriceCall /\ PageInputs) => StatusAgreesWithMessage

(***************************************************************************)
(* The portfolio's totals.                                                 *)
(***************************************************************************)
MarketValue == Python("total_market_value", positions)
BookValue == Python("total_book_value", positions)
UnrealizedPnl == Python("total_unrealized_pnl", positions)

\* every held position has a current price that is None or not zero
PricedOrNone ==
    \A i \in 1..Len(positions) :
        positions[i].current_price = None \/ Sgn(positions[i].current_price[1]) # 0

\* a position without current price counts at its book value and gains nothing
NoneAtBookValue ==
    \A i \in 1..Len(positions) :
        positions[i].current_price = None =>
            /\ market_value(positions[i]) = book_value(positions[i])
            /\ unrealized_pnl(positions[i]) = Zero

\* the difference of the totals and the total P&L differ by no more than the
\* rounding of the totals
PnlNearDifference ==
    Le(Abs(AddRaw(AddRaw(MarketValue, Neg(BookValue)), Neg(UnrealizedPnl))),
       MulRaw(Q(1, 10^9), AddRaw(Abs(MarketValue), Abs(BookValue))))

\* C27 as stated: after any sequence of add_position and remove_position,
\* while every held position has a current price None or non-zero,
\* total_market_value() - total_book_value() == total_unrealized_pnl(), and a
\* position without current price contributes its book value and no P&L.
C27_PnlIsValueDifference_AsStated ==
    PricedOrNone =>
        /\ fsub(MarketValue, BookValue) = UnrealizedPnl
        /\ NoneAtBookValue

\* C27: after any sequence of add_position and remove_position, while every
\* held position has a current price None or non-zero, the total market value
\* less the total book value is the total unrealized P&L, exactly in real
\* arithmetic and up to the rounding of the totals in binary64; a position
\* without current price contributes its book value and no P&L.
C27_PnlIsValueDifference ==
    PricedOrNone =>
        /\ IF arith = "real" THEN fsub(MarketValue, BookValue) = UnrealizedPnl
           ELSE PnlNearDifference
        /\ NoneAtBookValue

\* a position without current price and a priced one are held after a removal
C27_Witness ==
    /\ op = "remove_position"
    /\ PricedOrNone
    /\ \E i, j \in 1..Len(positions) :
           /\ positions[i].current_price = None
           /\ positions[j].current_price # None
    /\ Sgn(UnrealizedPnl) # 0

(***************************************************************************)
(* Portfolio.remove_position.                                              *)
(***************************************************************************)
Removing == op = "remove_position"

\* the positions of ps whose bond has another ISIN, in their order in ps
Others(ps, isin) == SelectSeq(ps, LAMBDA p : p.isin # isin)

Holds(ps, isin) == \E i \in 1..Len(ps) : ps[i].isin = isin

\* C28: remove_position(isin) removes every position of that ISIN, however
\* many were added, and leaves the others in their original relative order;
\* it leaves the portfolio unchanged when no position matches; a second call
\* changes nothing; get_position_by_isin(isin) is None right afterwards.
C28_RemovePosition ==
    Removing =>
        /\ positions = Others(args.self, args.isin)
        /\ ~Holds(positions, args.isin)
        /\ ~Holds(args.self, args.isin) => positions = args.self
        /\ remove_position(positions, args.isin) = positions
        /\ get_position_by_isin(positions, args.isin) = None

\* two positions of the removed ISIN were held around one that is kept
C28_Witness ==
    /\ Removing
    /\ Len(args.self) = 3
    /\ args.self[1].isin = args.isin
    /\ args.self[2].isin # args.isin
    /\ args.self[3].isin = args.isin
    /\ positions = <<args.self[2]>>

(***************************************************************************)
(* Scaling in the face value.                                              *)
(***************************************************************************)
\* the factors a face value is scaled by
ScaleFactors == {I(3), I(10), Num(1, 4)}

FaceValueCall ==
    op \in {"calculate_bond_price", "calculate_macaulay_duration",
            "calculate_modified_duration", "calculate_convexity"}

\* the function of the call on the same bond with face value k * F
AtScale(k) == Python(op, [args EXCEPT !.face_value = fmul(k, @)])

\* what the claim expects of it: k times the price, the same duration or
\* convexity
Scaled(k) == IF op = "calculate_bond_price" THEN fmul(k, ret) ELSE ret

\* the same up to rounding, or the same exception
SameOutcome(x, y) == IF IsNum(x) /\ IsNum(y) THEN Same(x, y) ELSE x = y

\* C29 as stated: for every k > 0 and valid terms the price at face value
\* k * F equals k times the price at F, and the durations and the convexity
\* at k * F equal those at F.
C29_FaceValueScaling_AsStated ==
    (FaceValueCall /\ ValidTerms) => \A k \in ScaleFactors : AtScale(k) = Scaled(k)

\* C29: for every k > 0 and valid terms the price at face value k * F is k
\* times the price at F, and the durations and the convexity at k * F are
\* those at F, exactly in real arithmetic and up to rounding in binary64;
\* a call that raises at F raises at k * F.
C29_FaceValueScaling ==
    (FaceValueCall /\ ValidTerms) =>
        \A k \in ScaleFactors : SameOutcome(AtScale(k), Scaled(k))

\* a coupon bond priced at a positive yield whose price at 3 F is 3 times as
\* large
C29_Witness ==
    /\ op = "calculate_bond_price"
    /\ ValidTerms
    /\ Sgn(args.coupon_rate) > 0
    /\ Sgn(args.yield_rate) > 0
    /\ IsNum(ret)
    /\ Sgn(ret) > 0
    /\ Same(AtScale(I(3)), fmul(I(3), ret))

(***************************************************************************)
(* The accrued interest and the payment frequency.                         *)
(***************************************************************************)
\* calculate_accrued_interest on the arguments of the call but the frequency
AtFrequency(f) ==
    Python("calculate_accrued_interest", [args EXCEPT !.frequency = f])

\* face_value * coupon_rate * d / 365, exactly
AnnualAccrual == Norm(MulRaw(MulRaw(args.face_value, args.coupon_rate), Q(DaysAccrued, 365)))

\* the coupon of one period, as the function computes it
PeriodCoupon == fdiv(fmul(args.face_value, args.coupon_rate), I(args.frequency))

\* more days have passed than a period has: d > 365 / frequency
PastThePeriod == DaysAccrued * args.frequency > 365

PositiveCoupon == Sgn(args.face_value) > 0 /\ Sgn(args.coupon_rate) > 0

\* the accrued amount is not capped: past the period it exceeds the coupon
ExceedsPeriodCoupon ==
    (PastThePeriod /\ PositiveCoupon) => Lt(PeriodCoupon, ret)

\* C30 as stated: for fixed face_value, coupon_rate and dates every frequency
\* >= 1 yields the same result, face_value * coupon_rate * d / 365, which
\* exceeds the coupon of a period whenever d > 365 / frequency.
C30_AccruedIgnoresFrequency_AsStated ==
    AccrualCall =>
        /\ \A f \in AccrualFrequencies : AtFrequency(f) = ret
        /\ Same(ret, AnnualAccrual)
        /\ ExceedsPeriodCoupon

\* C30: for fixed face_value, coupon_rate and dates every frequency >= 1
\* yields face_value * coupon_rate * d / 365, the same result exactly in real
\* arithmetic and up to rounding in binary64; for a positive face value and
\* coupon it exceeds the coupon of a period whenever d > 365 / frequency.
C30_AccruedIgnoresFrequency ==
    AccrualCall =>
        /\ \A f \in AccrualFrequencies : IsNum(AtFrequency(f)) /\ Same(AtFrequency(f), ret)
        /\ Same(ret, AnnualAccrual)
        /\ ExceedsPeriodCoupon

\* 200 days after the last coupon of a semi-annual coupon bond: more than the
\* coupon of the half year has accrued, as much as at an annual frequency
C30_Witness ==
    /\ AccrualCall
    /\ args.frequency = 2
    /\ DaysAccrued = 200
    /\ PositiveCoupon
    /\ Lt(PeriodCoupon, ret)
    /\ Same(AtFrequency(1), ret)
    /\ Same(AtFrequency(12), ret)

====
